---- MODULE Spec2Model ----
(***************************************************************************)
(* The control-socket hub of bgpd's session engine                         *)
(* (usr.sbin/bgpd/control.c): the connection registry ctl_conns, accept    *)
(* and close, the dispatcher control_dispatch_msg with its restricted-mode *)
(* filter and command handlers, and the relay control_imsg_relay with its  *)
(* XOFF/XON flow control.                                                  *)
(*                                                                         *)
(* One action models one call of a function of control.c. The messages a   *)
(* call composes are collected in rdeq (to the route decision engine),     *)
(* parentq (to the parent process) and cliq (on the client's own send      *)
(* queue); these three hold what the latest call produced. log holds, for  *)
(* the latest control_dispatch_msg, one entry per message the for(;;) loop *)
(* handled, with the handler state right after it; pre is the handler     *)
(* state when the loop was entered.                                        *)
(***************************************************************************)
EXTENDS Integers, Sequences, FiniteSets, TLC

\* ------------------------------------------------------------ bounds
\* descriptors the kernel hands out to accept4()
MaxFd == 2
\* size of the externally owned peer collection
MaxPeers == 2
\* process ids a client puts in imsg.hdr.pid
MaxPid == 1
\* frames one recv() delivers
MaxMsgs == 2
\* cap on msgbuf.queued of one connection
MaxQueued == 5
\* bulk shows of one connection the route decision engine has not finished
MaxInflight == 2

\* ------------------------------------------------------------ constants
\* watermarks of bgpd.h, scaled to the queue cap
CTL_MSG_HIGH_MARK == 3
CTL_MSG_LOW_MARK == 2
\* imsg.h
IMSG_HEADER_SIZE == 16
MAX_IMSGSIZE == 16384
\* payload sizes the handlers compare imsg.hdr.len with
SizeofCtlNeighbor == 64
SizeofCtlShowRibRequest == 128
SizeofInt == 4
SizeofRdePeerStats == 80

VARIABLES conns, peers, pauseaccept, openfds, badclose,
          rdeq, parentq, cliq, pre, log, last, xoff, inflight

vars == <<conns, peers, pauseaccept, openfds, badclose,
          rdeq, parentq, cliq, pre, log, last, xoff, inflight>>

Fds == 1..MaxFd
ClientPids == 0..MaxPid

\* ------------------------------------------------------------ helpers
Range(s) == {s[i] : i \in DOMAIN s}

RemoveAt(s, i) == [j \in 1..(Len(s) - 1) |-> IF j < i THEN s[j] ELSE s[j + 1]]

RECURSIVE SeqsUpTo(_, _)
SeqsUpTo(S, n) ==
    IF n = 0 THEN {<<>>}
    ELSE LET shorter == SeqsUpTo(S, n - 1)
         IN shorter \cup {Append(s, x) : s \in {t \in shorter : Len(t) = n - 1}, x \in S}

\* ------------------------------------------------------------ messages
\* message types control_dispatch_msg names, plus one it does not
Allowlist ==
    {"IMSG_CTL_SHOW_NEIGHBOR", "IMSG_CTL_SHOW_NEXTHOP", "IMSG_CTL_SHOW_INTERFACE",
     "IMSG_CTL_SHOW_RIB_MEM", "IMSG_CTL_SHOW_TERSE", "IMSG_CTL_SHOW_TIMER",
     "IMSG_CTL_SHOW_NETWORK", "IMSG_CTL_SHOW_FLOWSPEC", "IMSG_CTL_SHOW_RIB",
     "IMSG_CTL_SHOW_RIB_PREFIX", "IMSG_CTL_SHOW_SET", "IMSG_CTL_SHOW_RTR"}

LifecycleTypes ==
    {"IMSG_CTL_NEIGHBOR_UP", "IMSG_CTL_NEIGHBOR_DOWN", "IMSG_CTL_NEIGHBOR_CLEAR",
     "IMSG_CTL_NEIGHBOR_RREFRESH", "IMSG_CTL_NEIGHBOR_DESTROY"}

RibTypes == {"IMSG_CTL_SHOW_RIB", "IMSG_CTL_SHOW_RIB_PREFIX"}

FibTypes == {"IMSG_CTL_FIB_COUPLE", "IMSG_CTL_FIB_DECOUPLE"}

ParentPidTypes ==
    {"IMSG_CTL_RELOAD", "IMSG_CTL_SHOW_INTERFACE", "IMSG_CTL_SHOW_FIB_TABLES",
     "IMSG_CTL_SHOW_RTR"}

ParentPeeridTypes == {"IMSG_CTL_KROUTE", "IMSG_CTL_KROUTE_ADDR", "IMSG_CTL_SHOW_NEXTHOP"}

BulkTypes == {"IMSG_CTL_SHOW_NETWORK", "IMSG_CTL_SHOW_FLOWSPEC"}

RdePidTypes == {"IMSG_CTL_SHOW_RIB_MEM", "IMSG_CTL_SHOW_SET"}

RdeNoPidTypes ==
    {"IMSG_NETWORK_ADD", "IMSG_NETWORK_ASPATH", "IMSG_NETWORK_ATTR",
     "IMSG_NETWORK_REMOVE", "IMSG_NETWORK_FLUSH", "IMSG_NETWORK_DONE",
     "IMSG_FLOWSPEC_ADD", "IMSG_FLOWSPEC_REMOVE", "IMSG_FLOWSPEC_DONE",
     "IMSG_FLOWSPEC_FLUSH", "IMSG_FILTER_SET"}

\* types that reach the default: of the final switch
OtherTypes == {"IMSG_CTL_SHOW_TIMER", "IMSG_CTL_END"}

AID_UNSPEC == "AID_UNSPEC"
AID_INET == "AID_INET"

LenHdr == IMSG_HEADER_SIZE
LenNeighbor == IMSG_HEADER_SIZE + SizeofCtlNeighbor
LenRibReq == IMSG_HEADER_SIZE + SizeofCtlShowRibRequest
LenVerbose == IMSG_HEADER_SIZE + SizeofInt
LenShort == IMSG_HEADER_SIZE - 1
LenHuge == MAX_IMSGSIZE + 1

\* a frame of the receive buffer: the imsg header and the payload fields the
\* handlers read (struct ctl_neighbor, struct ctl_show_rib_request)
Frame(t, l, pid, d, tm, a) ==
    [type |-> t, len |-> l, peerid |-> 0, pid |-> pid,
     descr |-> d, show_timers |-> tm, reason |-> "maintenance", aid |-> a]

\* what a composed message carries: a result code or timer name, or a peer
\* snapshot (the peer's id and its statistics)
Data(code, p, stats) == [code |-> code, p |-> p, stats |-> stats]
NoData == Data("", 0, 0)
PeerData(p) == Data("", p.id, p.stats)

\* a message composed on a client's send queue
Msg(type, peerid, pid, data) ==
    [type |-> type, peerid |-> peerid, pid |-> pid, data |-> data]

\* a message composed for a backend process
BackendMsg(type, peerid, pid, datalen) ==
    [type |-> type, peerid |-> peerid, pid |-> pid, datalen |-> datalen]

\* ------------------------------------------------------------ peers
PeerDescr(i) == IF i = 1 THEN "peer1" ELSE IF i = 2 THEN "peer2" ELSE "peerN"

\* timers in enum order (the loop runs i = 1 .. Timer_Max - 1)
TimerOrder == <<"Timer_ConnectRetry", "Timer_Hold", "Timer_IdleHold">>

InitPeer(i, template, established) ==
    [id |-> i, descr |-> PeerDescr(i), template |-> template,
     refresh |-> established,
     state |-> IF established THEN "STATE_ESTABLISHED" ELSE "STATE_IDLE",
     down |-> FALSE, reason |-> "", IdleHoldTime |-> "BACKED_OFF", errcnt |-> 1,
     reconf_action |-> "RECONF_NONE",
     timers |-> IF established THEN {"Timer_Hold"} ELSE {"Timer_IdleHold"},
     stats |-> 0]

\* the peer collections the hub is handed: n peers with ids 1..n, the odd
\* ones template-derived and idle, the even ones configured and established
PeerTable(n) == [i \in 1..n |-> InitPeer(i, i % 2 = 1, i % 2 = 0)]

PeerTables == {PeerTable(n) : n \in 0..MaxPeers}

\* peer_matched (session.c): no selector or an empty one matches every peer,
\* otherwise the descriptor must be equal
peer_matched(p, n) == n.null \/ n.descr = "" \/ p.descr = n.descr

\* bgp_fsm (session.c): a start event takes an idle peer to Connect
bgp_fsm(p, evnt) ==
    IF evnt = "EVNT_START" /\ p.state = "STATE_IDLE"
    THEN [p EXCEPT !.state = "STATE_CONNECT", !.timers = {"Timer_ConnectRetry"}]
    ELSE IF evnt = "EVNT_STOP"
    THEN [p EXCEPT !.state = "STATE_IDLE", !.timers = {}]
    ELSE p

\* session_stop (session.c): notify if open, then drive the FSM with EVNT_STOP
session_stop(p, subcode) == bgp_fsm(p, "EVNT_STOP")

\* timer_set (timer.c)
timer_set(p, t) == [p EXCEPT !.timers = @ \cup {t}]

\* session_neighbor_rrefresh (session.c): non-zero without the capability
session_neighbor_rrefresh(p) == IF p.refresh THEN 0 ELSE -1

\* ------------------------------------------------------------ handler state
\* st: the connection being served, the peer collection, and what the call
\* has composed so far
imsg_compose(st, type, peerid, pid, data) ==
    [st EXCEPT !.c.queued = @ + 1,
               !.out = Append(@, Msg(type, peerid, pid, data))]

imsg_ctl_rde(st, type, peerid, pid, datalen) ==
    [st EXCEPT !.rde = Append(@, BackendMsg(type, peerid, pid, datalen))]

imsg_ctl_parent(st, type, peerid, pid, datalen) ==
    [st EXCEPT !.parent = Append(@, BackendMsg(type, peerid, pid, datalen))]

control_result(st, code) ==
    imsg_compose(st, "IMSG_CTL_RESULT", 0, st.c.pid, Data(code, 0, 0))

SetPeer(st, p) == [st EXCEPT !.peers[p.id] = p]

\* neighbor = imsg.data when the length is that of a struct ctl_neighbor,
\* NULL otherwise (IMSG_CTL_SHOW_NEIGHBOR); the other handlers reject the
\* message before they read it
NeighborOf(m, wanted) ==
    [null |-> m.len # wanted, descr |-> m.descr,
     show_timers |-> m.show_timers, reason |-> m.reason]

\* ------------------------------------------------------------ IMSG_CTL_SHOW_TERSE
RECURSIVE show_terse_loop(_, _)
show_terse_loop(st, i) ==
    IF i \notin DOMAIN st.peers THEN st
    ELSE show_terse_loop(
             imsg_compose(st, "IMSG_CTL_SHOW_NEIGHBOR", 0, 0, PeerData(st.peers[i])),
             i + 1)

show_terse(st, m) ==
    imsg_compose(show_terse_loop(st, 1), "IMSG_CTL_END", 0, 0, NoData)

\* ------------------------------------------------------------ IMSG_CTL_SHOW_NEIGHBOR
RECURSIVE show_timers_loop(_, _, _)
show_timers_loop(st, p, i) ==
    IF i > Len(TimerOrder) THEN st
    ELSE IF TimerOrder[i] \notin p.timers THEN show_timers_loop(st, p, i + 1)
    ELSE show_timers_loop(
             imsg_compose(st, "IMSG_CTL_SHOW_TIMER", 0, 0, Data(TimerOrder[i], 0, 0)),
             p, i + 1)

\* the neighbor show stopping at the first peer that matches
RECURSIVE show_neighbor_loop_single_request(_, _, _, _)
show_neighbor_loop_single_request(st, m, n, i) ==
    IF i \notin DOMAIN st.peers THEN st
    ELSE LET p == st.peers[i] IN
         IF ~peer_matched(p, n) THEN show_neighbor_loop_single_request(st, m, n, i + 1)
         ELSE LET s1 == [st EXCEPT !.matched = TRUE]
              IN IF n.null \/ ~n.show_timers
                 THEN imsg_ctl_rde(s1, m.type, p.id, m.pid, 0)
                 ELSE show_timers_loop(
                          imsg_compose(s1, "IMSG_CTL_SHOW_NEIGHBOR", 0, 0,
                                       PeerData(p)),
                          p, 1)

RECURSIVE show_neighbor_loop(_, _, _, _)
show_neighbor_loop(st, m, n, i) ==
    IF i \notin DOMAIN st.peers THEN st
    ELSE LET p == st.peers[i] IN
         IF ~peer_matched(p, n) THEN show_neighbor_loop(st, m, n, i + 1)
         ELSE LET s1 == [st EXCEPT !.matched = TRUE]
                  s2 == IF n.null \/ ~n.show_timers
                        THEN imsg_ctl_rde(s1, m.type, p.id, m.pid, 0)
                        ELSE show_timers_loop(
                                 imsg_compose(s1, "IMSG_CTL_SHOW_NEIGHBOR", 0, 0,
                                              PeerData(p)),
                                 p, 1)
              IN show_neighbor_loop(s2, m, n, i + 1)

\* show_neighbor answering CTL_RES_NOSUCHPEER only when peers exist
show_neighbor_nonempty_only(st, m) ==
    LET n == NeighborOf(m, LenNeighbor)
        s0 == [st EXCEPT !.c.pid = m.pid, !.matched = FALSE]
        s1 == show_neighbor_loop(s0, m, n, 1)
    IN IF ~s1.matched /\ DOMAIN s1.peers # {}
       THEN control_result(s1, "CTL_RES_NOSUCHPEER")
       ELSE IF n.null \/ ~n.show_timers
       THEN imsg_ctl_rde(s1, "IMSG_CTL_END", 0, m.pid, 0)
       ELSE imsg_compose(s1, "IMSG_CTL_END", 0, 0, NoData)

show_neighbor(st, m) ==
    LET n == NeighborOf(m, LenNeighbor)
        s0 == [st EXCEPT !.c.pid = m.pid, !.matched = FALSE]
        s1 == show_neighbor_loop(s0, m, n, 1)
    IN IF ~s1.matched /\ DOMAIN s1.peers = {}
       THEN control_result(s1, "CTL_RES_NOSUCHPEER")
       ELSE IF n.null \/ ~n.show_timers
       THEN imsg_ctl_rde(s1, "IMSG_CTL_END", 0, m.pid, 0)
       ELSE imsg_compose(s1, "IMSG_CTL_END", 0, 0, NoData)

\* ------------------------------------------------------------ IMSG_CTL_NEIGHBOR_*
neighbor_up(st, p, n) ==
    control_result(
        SetPeer(st, [bgp_fsm(p, "EVNT_START") EXCEPT
                        !.down = FALSE, !.reason = "",
                        !.IdleHoldTime = "INTERVAL_IDLE_HOLD_INITIAL",
                        !.errcnt = 0]),
        "CTL_RES_OK")

neighbor_down(st, p, n) ==
    control_result(
        SetPeer(st, session_stop([p EXCEPT !.down = TRUE, !.reason = n.reason],
                                 "ERR_CEASE_ADMIN_DOWN")),
        "CTL_RES_OK")

neighbor_clear(st, p, n) ==
    LET p1 == [p EXCEPT !.reason = n.reason,
                        !.IdleHoldTime = "INTERVAL_IDLE_HOLD_INITIAL",
                        !.errcnt = 0]
        p2 == IF ~p1.down
              THEN timer_set(session_stop(p1, "ERR_CEASE_ADMIN_RESET"), "Timer_IdleHold")
              ELSE session_stop(p1, "ERR_CEASE_ADMIN_DOWN")
    IN control_result(SetPeer(st, p2), "CTL_RES_OK")

neighbor_rrefresh(st, p, n) ==
    IF session_neighbor_rrefresh(p) # 0
    THEN control_result(st, "CTL_RES_NOCAP")
    ELSE control_result(st, "CTL_RES_OK")

\* neighbor_destroy without the "p->state != STATE_IDLE" test
neighbor_destroy_any_state(st, p, n) ==
    IF ~p.template THEN control_result(st, "CTL_RES_BADPEER")
    ELSE control_result(SetPeer(st, [p EXCEPT !.reconf_action = "RECONF_DELETE"]),
                        "CTL_RES_OK")

neighbor_destroy(st, p, n) ==
    IF ~p.template THEN control_result(st, "CTL_RES_BADPEER")
    ELSE IF p.state # "STATE_IDLE" THEN control_result(st, "CTL_RES_BADSTATE")
    ELSE control_result(SetPeer(st, [p EXCEPT !.reconf_action = "RECONF_DELETE"]),
                        "CTL_RES_OK")

neighbor_cmd(st, m, p, n) ==
    CASE m.type = "IMSG_CTL_NEIGHBOR_UP" -> neighbor_up(st, p, n)
      [] m.type = "IMSG_CTL_NEIGHBOR_DOWN" -> neighbor_down(st, p, n)
      [] m.type = "IMSG_CTL_NEIGHBOR_CLEAR" -> neighbor_clear(st, p, n)
      [] m.type = "IMSG_CTL_NEIGHBOR_RREFRESH" -> neighbor_rrefresh(st, p, n)
      [] m.type = "IMSG_CTL_NEIGHBOR_DESTROY" -> neighbor_destroy(st, p, n)

\* neighbor_loop leaving the RB_FOREACH after the first match
RECURSIVE neighbor_loop_first_only(_, _, _, _)
neighbor_loop_first_only(st, m, n, i) ==
    IF i \notin DOMAIN st.peers THEN st
    ELSE LET p == st.peers[i] IN
         IF ~peer_matched(p, n) THEN neighbor_loop_first_only(st, m, n, i + 1)
         ELSE neighbor_cmd([st EXCEPT !.matched = TRUE], m, p, n)

RECURSIVE neighbor_loop(_, _, _, _)
neighbor_loop(st, m, n, i) ==
    IF i \notin DOMAIN st.peers THEN st
    ELSE LET p == st.peers[i] IN
         IF ~peer_matched(p, n) THEN neighbor_loop(st, m, n, i + 1)
         ELSE neighbor_loop(neighbor_cmd([st EXCEPT !.matched = TRUE], m, p, n),
                            m, n, i + 1)

\* neighbor_lifecycle answering CTL_RES_NOSUCHPEER whatever "matched" says
neighbor_lifecycle_always_nosuchpeer(st, m) ==
    IF m.len # LenNeighbor THEN st
    ELSE LET n == NeighborOf(m, LenNeighbor)
             s1 == neighbor_loop([st EXCEPT !.matched = FALSE], m, n, 1)
         IN control_result(s1, "CTL_RES_NOSUCHPEER")

neighbor_lifecycle(st, m) ==
    IF m.len # LenNeighbor THEN st
    ELSE LET n == NeighborOf(m, LenNeighbor)
             s1 == neighbor_loop([st EXCEPT !.matched = FALSE], m, n, 1)
         IN IF ~s1.matched THEN control_result(s1, "CTL_RES_NOSUCHPEER") ELSE s1

\* ------------------------------------------------------------ IMSG_CTL_SHOW_RIB*
\* the peer the RB_FOREACH stops at, 0 for NULL
RECURSIVE rib_first_match(_, _, _)
rib_first_match(ps, n, i) ==
    IF i \notin DOMAIN ps THEN 0
    ELSE IF peer_matched(ps[i], n) THEN i
    ELSE rib_first_match(ps, n, i + 1)

\* the rib show answering a request of a wrong size with a parse error
show_rib_answers_wrong_size(st, m) ==
    IF m.len # LenRibReq THEN control_result(st, "CTL_RES_PARSE_ERROR")
    ELSE LET n == NeighborOf(m, LenRibReq)
             p == rib_first_match(st.peers, n, 1)
         IN IF p = 0 /\ DOMAIN st.peers = {}
            THEN control_result(st, "CTL_RES_NOSUCHPEER")
            ELSE IF m.type = "IMSG_CTL_SHOW_RIB_PREFIX" /\ m.aid = AID_UNSPEC
            THEN control_result(st, "CTL_RES_PARSE_ERROR")
            ELSE imsg_ctl_rde([st EXCEPT !.c.pid = m.pid, !.c.terminate = TRUE],
                              m.type, 0, m.pid, m.len - IMSG_HEADER_SIZE)

show_rib(st, m) ==
    IF m.len # LenRibReq THEN st
    ELSE LET n == NeighborOf(m, LenRibReq)
             p == rib_first_match(st.peers, n, 1)
         IN IF p = 0 /\ DOMAIN st.peers = {}
            THEN control_result(st, "CTL_RES_NOSUCHPEER")
            ELSE IF m.type = "IMSG_CTL_SHOW_RIB_PREFIX" /\ m.aid = AID_UNSPEC
            THEN control_result(st, "CTL_RES_PARSE_ERROR")
            ELSE imsg_ctl_rde([st EXCEPT !.c.pid = m.pid, !.c.terminate = TRUE],
                              m.type, 0, m.pid, m.len - IMSG_HEADER_SIZE)

\* ------------------------------------------------------------ the two switches
\* restrict_filter without "imsg.hdr.type = IMSG_NONE"
restrict_filter_keeps_type(st, m) ==
    IF st.c.restricted /\ m.type \notin Allowlist
    THEN [st |-> control_result(st, "CTL_RES_DENIED"), m |-> m]
    ELSE [st |-> st, m |-> m]

\* the restricted-mode filter: the type the second switch sees, and the
\* "denied" result
restrict_filter(st, m) ==
    IF st.c.restricted /\ m.type \notin Allowlist
    THEN [st |-> control_result(st, "CTL_RES_DENIED"),
          m |-> [m EXCEPT !.type = "IMSG_NONE"]]
    ELSE [st |-> st, m |-> m]

handle_type(st, m) ==
    CASE m.type = "IMSG_NONE" -> st
      [] m.type \in FibTypes -> imsg_ctl_parent(st, m.type, m.peerid, 0, 0)
      [] m.type = "IMSG_CTL_SHOW_TERSE" -> show_terse(st, m)
      [] m.type = "IMSG_CTL_SHOW_NEIGHBOR" -> show_neighbor(st, m)
      [] m.type \in LifecycleTypes -> neighbor_lifecycle(st, m)
      [] m.type \in ParentPidTypes ->
            imsg_ctl_parent([st EXCEPT !.c.pid = m.pid], m.type, 0, m.pid,
                            m.len - IMSG_HEADER_SIZE)
      [] m.type \in ParentPeeridTypes ->
            imsg_ctl_parent([st EXCEPT !.c.pid = m.pid], m.type, m.peerid, m.pid,
                            m.len - IMSG_HEADER_SIZE)
      [] m.type \in RibTypes -> show_rib(st, m)
      [] m.type \in BulkTypes ->
            imsg_ctl_rde([st EXCEPT !.c.terminate = TRUE, !.c.pid = m.pid],
                         m.type, 0, m.pid, m.len - IMSG_HEADER_SIZE)
      [] m.type \in RdePidTypes ->
            imsg_ctl_rde([st EXCEPT !.c.pid = m.pid],
                         m.type, 0, m.pid, m.len - IMSG_HEADER_SIZE)
      [] m.type \in RdeNoPidTypes ->
            imsg_ctl_rde(st, m.type, 0, 0, m.len - IMSG_HEADER_SIZE)
      [] m.type = "IMSG_CTL_LOG_VERBOSE" ->
            IF m.len # LenVerbose THEN st
            ELSE imsg_ctl_rde(
                     imsg_ctl_parent(st, m.type, 0, m.pid, m.len - IMSG_HEADER_SIZE),
                     m.type, 0, m.pid, m.len - IMSG_HEADER_SIZE)
      [] OTHER -> st

\* one pass of the body of the for (;;) loop
handle_imsg(st, m) ==
    LET f == restrict_filter(st, m) IN handle_type(f.st, f.m)

\* ------------------------------------------------------------ registry
\* index of the first connection with this descriptor, 0 for NULL
RECURSIVE connbyfd_from(_, _, _)
connbyfd_from(cs, fd, i) ==
    IF i > Len(cs) THEN 0
    ELSE IF cs[i].fd = fd THEN i
    ELSE connbyfd_from(cs, fd, i + 1)

control_connbyfd(cs, fd) == connbyfd_from(cs, fd, 1)

\* the pollfd entries the loop of control_fill_pfds writes from connection i on
RECURSIVE pfds_from(_, _)
pfds_from(cs, i) ==
    IF i > Len(cs) THEN <<>>
    ELSE <<[fd |-> cs[i].fd,
            events |-> IF cs[i].queued > 0 THEN {"POLLIN", "POLLOUT"}
                       ELSE {"POLLIN"}]>>
         \o pfds_from(cs, i + 1)

\* control_fill_pfds asking for POLLOUT on every connection
control_fill_pfds_always_pollout(cs) ==
    [pfd |-> [i \in DOMAIN cs |-> [fd |-> cs[i].fd, events |-> {"POLLIN", "POLLOUT"}]],
     n |-> Len(cs)]

\* control_fill_pfds(pfd, size): the entries written and the count returned
control_fill_pfds(cs) ==
    LET pfd == pfds_from(cs, 1) IN [pfd |-> pfd, n |-> Len(pfd)]

\* index of the first connection with this pid, 0 for NULL
RECURSIVE connbypid_from(_, _, _)
connbypid_from(cs, pid, i) ==
    IF i > Len(cs) THEN 0
    ELSE IF cs[i].pid = pid THEN i
    ELSE connbypid_from(cs, pid, i + 1)

\* control_connbypid returning the last connection with the pid
control_connbypid_last(cs, pid) ==
    IF \E i \in DOMAIN cs : cs[i].pid = pid
    THEN CHOOSE i \in DOMAIN cs :
            /\ cs[i].pid = pid
            /\ \A j \in DOMAIN cs : cs[j].pid = pid => j <= i
    ELSE 0

control_connbypid(cs, pid) == connbypid_from(cs, pid, 1)

\* imsg_init + calloc: a fresh connection on descriptor fd
NewConn(fd, restricted) ==
    [fd |-> fd, pid |-> 0, restricted |-> restricted, throttled |-> FALSE,
     terminate |-> FALSE, queued |-> 0, rbuf |-> <<>>]

\* g: the registry, the accept-pause marker, the kernel's descriptor table
\* (with badclose: some close() hit a descriptor that was not open) and the
\* messages composed for the route decision engine
\* control_close without the IMSG_CTL_TERMINATE for a command in flight
control_close_silent(g, i) ==
    LET c == g.conns[i] IN
    [conns |-> RemoveAt(g.conns, i),
     pauseaccept |-> 0,
     openfds |-> g.openfds \ {c.fd},
     badclose |-> g.badclose \/ c.fd \notin g.openfds,
     rde |-> g.rde]

\* control_close unlinking the head of ctl_conns, whichever connection closes
control_close_removes_head(g, i) ==
    LET c == g.conns[i] IN
    [conns |-> RemoveAt(g.conns, 1),
     pauseaccept |-> 0,
     openfds |-> g.openfds \ {c.fd},
     badclose |-> g.badclose \/ c.fd \notin g.openfds,
     rde |-> IF c.terminate /\ c.pid # 0
             THEN Append(g.rde, BackendMsg("IMSG_CTL_TERMINATE", 0, c.pid, 0))
             ELSE g.rde]

\* control_close without TAILQ_REMOVE
control_close_keeps_entry(g, i) ==
    LET c == g.conns[i] IN
    [conns |-> g.conns,
     pauseaccept |-> 0,
     openfds |-> g.openfds \ {c.fd},
     badclose |-> g.badclose \/ c.fd \notin g.openfds,
     rde |-> IF c.terminate /\ c.pid # 0
             THEN Append(g.rde, BackendMsg("IMSG_CTL_TERMINATE", 0, c.pid, 0))
             ELSE g.rde]

control_close(g, i) ==
    LET c == g.conns[i] IN
    [conns |-> RemoveAt(g.conns, i),
     pauseaccept |-> 0,
     openfds |-> g.openfds \ {c.fd},
     badclose |-> g.badclose \/ c.fd \notin g.openfds,
     rde |-> IF c.terminate /\ c.pid # 0
             THEN Append(g.rde, BackendMsg("IMSG_CTL_TERMINATE", 0, c.pid, 0))
             ELSE g.rde]

\* ------------------------------------------------------------ channel
\* msgbuf_write (libutil): a hard error or 0 closes; otherwise some of the
\* queued buffers are drained
msgbuf_write(st, wres, drained) ==
    IF wres = "ok" THEN [st EXCEPT !.c.queued = @ - drained] ELSE st

\* imsg_read_nofd: the bytes received extend the receive buffer
imsg_read_nofd(st, rres, frames) ==
    IF rres = "data" THEN [st EXCEPT !.c.rbuf = @ \o frames] ELSE st

\* imsg_get (libutil): "none" for n = 0, "error" for n = -1, else a message.
\* part: the last frame of the buffer has not fully arrived
imsg_get(buf, part) ==
    IF buf = <<>> THEN "none"
    ELSE IF Head(buf).len < IMSG_HEADER_SIZE \/ Head(buf).len > MAX_IMSGSIZE
    THEN "error"
    ELSE IF Len(buf) = 1 /\ part THEN "none"
    ELSE "imsg"

\* ------------------------------------------------------------ control_dispatch_msg
\* the POLLOUT branch; closed: the caller returns control_close(c)
dispatch_pollout(st, ev) ==
    IF "POLLOUT" \notin ev.revents THEN [st |-> st, closed |-> FALSE]
    ELSE IF ev.wres \in {"error", "eof"} THEN [st |-> st, closed |-> TRUE]
    ELSE LET s1 == msgbuf_write(st, ev.wres, ev.drained) IN
         IF s1.c.throttled /\ s1.c.queued < CTL_MSG_LOW_MARK /\ ev.rdeok
         THEN [st |-> [imsg_ctl_rde(s1, "IMSG_XON", 0, s1.c.pid, 0)
                          EXCEPT !.c.throttled = FALSE],
               closed |-> FALSE]
         ELSE [st |-> s1, closed |-> FALSE]

\* the for (;;) loop; lg collects one entry per handled message
\* dispatch_loop leaving the loop on a decode failure without control_close
RECURSIVE dispatch_loop_break_on_error(_, _, _)
dispatch_loop_break_on_error(st, part, lg) ==
    LET n == imsg_get(st.c.rbuf, part) IN
    IF n = "error" THEN [st |-> st, closed |-> FALSE, log |-> lg]
    ELSE IF n = "none" THEN [st |-> st, closed |-> FALSE, log |-> lg]
    ELSE LET m == Head(st.c.rbuf)
             s1 == handle_imsg([st EXCEPT !.c.rbuf = Tail(@)], m)
         IN dispatch_loop_break_on_error(s1, part, Append(lg, [m |-> m, st |-> s1]))

RECURSIVE dispatch_loop(_, _, _)
dispatch_loop(st, part, lg) ==
    LET n == imsg_get(st.c.rbuf, part) IN
    IF n = "error" THEN [st |-> st, closed |-> TRUE, log |-> lg]
    ELSE IF n = "none" THEN [st |-> st, closed |-> FALSE, log |-> lg]
    ELSE LET m == Head(st.c.rbuf)
             s1 == handle_imsg([st EXCEPT !.c.rbuf = Tail(@)], m)
         IN dispatch_loop(s1, part, Append(lg, [m |-> m, st |-> s1]))

\* the call from the POLLOUT branch on: the handler state it ends in, whether
\* it ended in control_close, the state the loop was entered with and its log
dispatch_conn(st0, ev) ==
    LET w == dispatch_pollout(st0, ev) IN
    IF w.closed THEN [st |-> w.st, closed |-> TRUE, pre |-> <<>>, log |-> <<>>]
    ELSE IF "POLLIN" \notin ev.revents
    THEN [st |-> w.st, closed |-> FALSE, pre |-> <<>>, log |-> <<>>]
    ELSE IF ev.rres \in {"error", "eof"}
    THEN [st |-> w.st, closed |-> TRUE, pre |-> <<>>, log |-> <<>>]
    ELSE LET s1 == imsg_read_nofd(w.st, ev.rres, ev.frames)
             l == dispatch_loop(s1, ev.part, <<>>)
         IN [st |-> l.st, closed |-> l.closed, pre |-> <<s1>>, log |-> l.log]

\* ------------------------------------------------------------ inputs
Selectors == {"", "peer1", "nobody"}

LifecycleFrames ==
    {Frame(t, LenNeighbor, 1, d, FALSE, AID_UNSPEC) : t \in LifecycleTypes, d \in Selectors}
    \cup {Frame(t, LenHdr, 1, "", FALSE, AID_UNSPEC) : t \in LifecycleTypes}

NeighborFrames ==
    {Frame("IMSG_CTL_SHOW_NEIGHBOR", LenNeighbor, pid, d, tm, AID_UNSPEC) :
        pid \in ClientPids, d \in Selectors, tm \in BOOLEAN}
    \cup {Frame("IMSG_CTL_SHOW_NEIGHBOR", LenHdr, pid, "", FALSE, AID_UNSPEC) :
        pid \in ClientPids}

RibFrames ==
    {Frame(t, LenRibReq, pid, d, FALSE, a) :
        t \in RibTypes, pid \in ClientPids, d \in Selectors, a \in {AID_UNSPEC, AID_INET}}
    \cup {Frame(t, LenHdr, pid, "", FALSE, AID_UNSPEC) : t \in RibTypes, pid \in ClientPids}

PlainFrames ==
    {Frame(t, LenHdr, pid, "", FALSE, AID_UNSPEC) :
        t \in ParentPidTypes \cup ParentPeeridTypes \cup BulkTypes \cup RdePidTypes,
        pid \in ClientPids}
    \cup {Frame(t, LenHdr, 1, "", FALSE, AID_UNSPEC) :
        t \in FibTypes \cup {"IMSG_CTL_SHOW_TERSE"} \cup RdeNoPidTypes \cup OtherTypes}
    \cup {Frame("IMSG_CTL_LOG_VERBOSE", l, 1, "", FALSE, AID_UNSPEC) :
        l \in {LenVerbose, LenHdr}}

\* frames whose declared length imsg_get rejects
BadFrames ==
    {Frame("IMSG_CTL_SHOW_TERSE", l, 1, "", FALSE, AID_UNSPEC) : l \in {LenShort, LenHuge}}

Frames == LifecycleFrames \cup NeighborFrames \cup RibFrames \cup PlainFrames

\* the frames that arrive several to a recv()
SeqFrames ==
    {Frame("IMSG_CTL_NEIGHBOR_DOWN", LenNeighbor, 1, "", FALSE, AID_UNSPEC),
     Frame("IMSG_CTL_NEIGHBOR_UP", LenHdr, 1, "", FALSE, AID_UNSPEC),
     Frame("IMSG_CTL_SHOW_RIB", LenRibReq, 1, "", FALSE, AID_INET),
     Frame("IMSG_CTL_SHOW_TERSE", LenShort, 1, "", FALSE, AID_UNSPEC)}

SeqInputs == {t \in SeqsUpTo(SeqFrames, MaxMsgs) : Len(t) >= 2}

\* the frames that arrive in two pieces
PartFrames == {Frame("IMSG_CTL_SHOW_SET", LenHdr, 1, "", FALSE, AID_UNSPEC)}

\* what the clients of one specification send: frames that arrive alone,
\* runs of frames that arrive together, frames that arrive in two pieces
CmdInputs == [frames |-> Frames \cup BadFrames, seqs |-> {}, parts |-> {}]

\* lifecycle and rib requests of a wrong size, too short or too long, and the
\* well-sized requests that arrive behind them
WrongSizeFrames ==
    {Frame(t, LenHdr, 1, "", FALSE, AID_UNSPEC) : t \in LifecycleTypes \cup RibTypes}
    \cup {Frame("IMSG_CTL_NEIGHBOR_UP", LenNeighbor + 1, 1, "", FALSE, AID_UNSPEC),
          Frame("IMSG_CTL_SHOW_RIB", LenRibReq + 1, 1, "", FALSE, AID_INET)}

LenFrames ==
    WrongSizeFrames
    \cup {Frame("IMSG_CTL_NEIGHBOR_DOWN", LenNeighbor, 1, "", FALSE, AID_UNSPEC),
          Frame("IMSG_CTL_SHOW_RIB", LenRibReq, 1, "", FALSE, AID_INET),
          Frame("IMSG_CTL_SHOW_TERSE", LenShort, 1, "", FALSE, AID_UNSPEC)}

LenInputs ==
    [frames |-> LenFrames,
     seqs |-> {t \in SeqsUpTo(LenFrames, MaxMsgs) : Len(t) >= 2},
     parts |-> {}]

\* a request answered on the client's own queue
FillInputs ==
    [frames |-> {Frame("IMSG_CTL_SHOW_TERSE", LenHdr, 1, "", FALSE, AID_UNSPEC)},
     seqs |-> {}, parts |-> {}]

SeqOnlyInputs == [frames |-> SeqFrames, seqs |-> SeqInputs, parts |-> PartFrames]

RegInputs ==
    [frames |-> {Frame("IMSG_CTL_SHOW_NETWORK", LenHdr, pid, "", FALSE, AID_UNSPEC) :
                     pid \in ClientPids}
                \cup BadFrames,
     seqs |-> {}, parts |-> {}]

\* what one recv() may add to the receive buffer of c: frames, and whether
\* the last frame of the buffer is still incomplete afterwards
RecvData(c, I) ==
    {[frames |-> <<f>>, part |-> FALSE] : f \in I.frames}
    \cup {[frames |-> <<f>>, part |-> TRUE] : f \in I.parts}
    \cup {[frames |-> fs, part |-> FALSE] : fs \in I.seqs}
    \cup (IF c.rbuf # <<>> THEN {[frames |-> <<>>, part |-> b] : b \in BOOLEAN} ELSE {})

\* whether imsg_ctl_rde succeeds, where the caller tests it
RdeOutcomes(tested) == IF tested THEN BOOLEAN ELSE {TRUE}

Event(revents, wres, drained, rdeok, rres, frames, part) ==
    [revents |-> revents, wres |-> wres, drained |-> drained, rdeok |-> rdeok,
     rres |-> rres, frames |-> frames, part |-> part]

\* the outcomes of msgbuf_write on c
WriteEvents(c) ==
    {[wres |-> w, drained |-> 0] : w \in {"error", "eof", "eagain"}}
    \cup {[wres |-> "ok", drained |-> d] : d \in 0..c.queued}

\* the outcomes of imsg_read_nofd on c
ReadEvents(c, I) ==
    {[rres |-> r, frames |-> <<>>, part |-> c.rbuf # <<>>] : r \in {"error", "eof", "eagain"}}
    \cup {[rres |-> "data", frames |-> d.frames, part |-> d.part] : d \in RecvData(c, I)}

\* the poll results control_dispatch_msg may be called with for c: POLLOUT is
\* only asked for while output is queued (control_fill_pfds)
DispatchEvents(c, I) ==
    {Event({}, "eagain", 0, TRUE, "eagain", <<>>, FALSE)}
    \cup {Event({"POLLIN"}, "eagain", 0, TRUE, r.rres, r.frames, r.part) :
            r \in ReadEvents(c, I)}
    \cup (IF c.queued = 0 THEN {}
          ELSE {Event({"POLLOUT"}, w.wres, w.drained, ok, "eagain", <<>>, FALSE) :
                    w \in WriteEvents(c), ok \in RdeOutcomes(c.throttled)}
               \cup {Event({"POLLIN", "POLLOUT"}, w.wres, w.drained, TRUE,
                           "data", <<f>>, FALSE) :
                    w \in WriteEvents(c), f \in SeqFrames \cap I.frames})

\* replies the route decision engine hands to control_imsg_relay, with the
\* peer the caller resolved (0 for NULL)
Replies ==
    {[type |-> "IMSG_CTL_SHOW_NEIGHBOR", pid |-> pid, len |-> IMSG_HEADER_SIZE + l,
      stats |-> 1, data |-> "stats", p |-> p] :
        pid \in ClientPids, l \in {SizeofRdePeerStats, SizeofRdePeerStats + 1},
        p \in 0..MaxPeers}
    \cup {[type |-> t, pid |-> pid, len |-> IMSG_HEADER_SIZE, stats |-> 0,
           data |-> "payload", p |-> 0] :
        t \in {"IMSG_CTL_SHOW_RIB", "IMSG_CTL_END", "IMSG_CTL_RESULT"},
        pid \in ClientPids}

AcceptOutcomes ==
    {"ok", "ENFILE", "EMFILE", "EWOULDBLOCK", "EINTR", "ECONNABORTED", "EINVAL", "ENOMEM"}

\* ------------------------------------------------------------ state
NoSig == [fd \in Fds |-> FALSE]

Count(q, t) == Cardinality({k \in DOMAIN q : q[k].type = t})

\* inflight[fd]: the bulk shows (rib, rib-prefix, network, flowspec) forwarded
\* for the connection on fd whose IMSG_CTL_END or IMSG_CTL_RESULT has not
\* been relayed yet; <<>> in the specifications that do not keep the count.
\* q: what the handlers of one call composed for the route decision engine
BulkForwarded(q) ==
    Cardinality({k \in DOMAIN q : q[k].type \in RibTypes \cup BulkTypes})

FlightSet(fl, fd, n) == IF fl = <<>> THEN fl ELSE [fl EXCEPT ![fd] = n]

FlightOf(fl, fd) == IF fl = <<>> THEN 0 ELSE fl[fd]

\* the count after a call on fd that forwarded q and closed the connection
\* or did not
FlightAfter(fl, fd, q, closed) ==
    IF closed THEN FlightSet(fl, fd, 0)
    ELSE FlightSet(fl, fd, FlightOf(fl, fd) + BulkForwarded(q))

InitFrom(T, fl) ==
    /\ conns = <<>>
    /\ peers \in T
    /\ pauseaccept = 0
    /\ openfds = {}
    /\ badclose = FALSE
    /\ rdeq = <<>>
    /\ parentq = <<>>
    /\ cliq = <<>>
    /\ pre = <<>>
    /\ log = <<>>
    /\ last = [op |-> "poll", fill |-> control_fill_pfds(<<>>)]
    /\ xoff = NoSig
    /\ inflight = fl

InitWith(T) == InitFrom(T, <<>>)

\* control_accept pausing on every accept4 failure, not only ENFILE and EMFILE
control_accept_pauses_on_any_error(restricted, outcome, fd) ==
    /\ last.op = "poll"
    /\ fd \notin openfds
    /\ IF outcome \notin {"ok", "ENOMEM"}
       THEN /\ pauseaccept' = 1
            /\ UNCHANGED <<conns, openfds, xoff, inflight>>
       ELSE IF outcome = "ok"
       THEN /\ conns' = Append(conns, NewConn(fd, restricted))
            /\ openfds' = openfds \cup {fd}
            /\ xoff' = [xoff EXCEPT ![fd] = FALSE]
            /\ inflight' = FlightSet(inflight, fd, 0)
            /\ UNCHANGED pauseaccept
       ELSE UNCHANGED <<conns, openfds, pauseaccept, xoff, inflight>>
    /\ rdeq' = <<>>
    /\ parentq' = <<>>
    /\ cliq' = <<>>
    /\ pre' = <<>>
    /\ log' = <<>>
    /\ last' = [op |-> "accept", fd |-> fd, outcome |-> outcome,
                restricted |-> restricted]
    /\ UNCHANGED <<peers, badclose>>

\* control_accept(listenfd, restricted): outcome is what accept4 and calloc
\* did, fd the descriptor accept4 returned
control_accept(restricted, outcome, fd) ==
    /\ last.op = "poll"
    /\ fd \notin openfds
    /\ IF outcome \in {"ENFILE", "EMFILE"}
       THEN /\ pauseaccept' = 1
            /\ UNCHANGED <<conns, openfds, xoff, inflight>>
       ELSE IF outcome = "ok"
       THEN /\ conns' = Append(conns, NewConn(fd, restricted))
            /\ openfds' = openfds \cup {fd}
            /\ xoff' = [xoff EXCEPT ![fd] = FALSE]
            /\ inflight' = FlightSet(inflight, fd, 0)
            /\ UNCHANGED pauseaccept
       ELSE UNCHANGED <<conns, openfds, pauseaccept, xoff, inflight>>
    /\ rdeq' = <<>>
    /\ parentq' = <<>>
    /\ cliq' = <<>>
    /\ pre' = <<>>
    /\ log' = <<>>
    /\ last' = [op |-> "accept", fd |-> fd, outcome |-> outcome,
                restricted |-> restricted]
    /\ UNCHANGED <<peers, badclose>>

\* R: the listeners (restricted or not); F: the descriptors accept4 may return
Accept(R, F) ==
    /\ last.op = "poll"
    /\ \E restricted \in R, outcome \in AcceptOutcomes, fd \in F \cup {0} :
          /\ outcome \in {"ok", "ENOMEM"} <=> fd # 0
          /\ control_accept(restricted, outcome, fd)

\* xoff[fd]: an XOFF was sent for the connection on fd and no XON since.
\* q: what the call composed for the route decision engine
SigOf(q, old) ==
    IF \E k \in DOMAIN q : q[k].type = "IMSG_XOFF" THEN TRUE
    ELSE IF \E k \in DOMAIN q : q[k].type = "IMSG_XON" THEN FALSE
    ELSE old

\* what control_dispatch_msg(pfd, peers) does to a registered connection
dispatch_result(i, ev) ==
    LET st0 == [c |-> conns[i], peers |-> peers, out |-> <<>>, rde |-> <<>>,
                parent |-> <<>>, matched |-> FALSE]
        r == dispatch_conn(st0, ev)
        g0 == [conns |-> [conns EXCEPT ![i] = r.st.c], pauseaccept |-> pauseaccept,
               openfds |-> openfds, badclose |-> badclose, rde |-> r.st.rde]
    IN [r |-> r, g |-> IF r.closed THEN control_close(g0, i) ELSE g0]

\* control_dispatch_msg(pfd, peers)
control_dispatch_msg(fd, ev) ==
    LET i == control_connbyfd(conns, fd) IN
    /\ last.op = "poll"
    /\ IF i = 0
       THEN /\ rdeq' = <<>>
            /\ parentq' = <<>>
            /\ cliq' = <<>>
            /\ pre' = <<>>
            /\ log' = <<>>
            /\ last' = [op |-> "notfound", fd |-> fd]
            /\ UNCHANGED <<conns, peers, pauseaccept, openfds, badclose, xoff,
                           inflight>>
       ELSE \E d \in {dispatch_result(i, ev)} :
            /\ d.r.st.c.queued <= MaxQueued
            /\ inflight # <<>> =>
                  FlightOf(inflight, fd) + BulkForwarded(d.r.st.rde) <= MaxInflight
            /\ inflight' = FlightAfter(inflight, fd, d.r.st.rde, d.r.closed)
            /\ conns' = d.g.conns
            /\ peers' = d.r.st.peers
            /\ pauseaccept' = d.g.pauseaccept
            /\ openfds' = d.g.openfds
            /\ badclose' = d.g.badclose
            /\ rdeq' = d.g.rde
            /\ parentq' = d.r.st.parent
            /\ cliq' = d.r.st.out
            /\ pre' = d.r.pre
            /\ log' = d.r.log
            /\ last' = [op |-> "dispatch", fd |-> fd, ev |-> ev, idx |-> i,
                        closed |-> d.r.closed]
            /\ xoff' = [xoff EXCEPT ![fd] = SigOf(d.r.st.rde, @)]

Dispatch(F, I) ==
    /\ last.op = "poll"
    /\ \E fd \in F :
          LET i == control_connbyfd(conns, fd) IN
          \E ev \in IF i = 0
                    THEN {Event({"POLLIN"}, "eagain", 0, TRUE, "eagain", <<>>, FALSE)}
                    ELSE DispatchEvents(conns[i], I) :
              control_dispatch_msg(fd, ev)

\* ------------------------------------------------------------ control_imsg_relay
\* relay_conn setting throttled whether or not imsg_ctl_rde returned -1
relay_conn_throttles_unsent(st, imsg, rdeok) ==
    IF imsg.type = "IMSG_CTL_SHOW_NEIGHBOR"
    THEN IF imsg.len > IMSG_HEADER_SIZE + SizeofRdePeerStats THEN st
         ELSE IF imsg.p = 0 THEN st
         ELSE LET s1 == SetPeer(st, [st.peers[imsg.p] EXCEPT !.stats = imsg.stats])
              IN imsg_compose(s1, imsg.type, 0, imsg.pid, PeerData(s1.peers[imsg.p]))
    ELSE LET s1 == IF imsg.type \in {"IMSG_CTL_END", "IMSG_CTL_RESULT"}
                   THEN [st EXCEPT !.c.terminate = FALSE]
                   ELSE st
             s2 == IF ~s1.c.throttled /\ s1.c.queued > CTL_MSG_HIGH_MARK
                   THEN [(IF rdeok THEN imsg_ctl_rde(s1, "IMSG_XOFF", 0, imsg.pid, 0)
                          ELSE s1)
                            EXCEPT !.c.throttled = TRUE]
                   ELSE s1
         IN imsg_compose(s2, imsg.type, 0, imsg.pid, Data(imsg.data, 0, 0))

\* relay_conn without the "!c->throttled" test
relay_conn_xoff_again(st, imsg, rdeok) ==
    IF imsg.type = "IMSG_CTL_SHOW_NEIGHBOR"
    THEN IF imsg.len > IMSG_HEADER_SIZE + SizeofRdePeerStats THEN st
         ELSE IF imsg.p = 0 THEN st
         ELSE LET s1 == SetPeer(st, [st.peers[imsg.p] EXCEPT !.stats = imsg.stats])
              IN imsg_compose(s1, imsg.type, 0, imsg.pid, PeerData(s1.peers[imsg.p]))
    ELSE LET s1 == IF imsg.type \in {"IMSG_CTL_END", "IMSG_CTL_RESULT"}
                   THEN [st EXCEPT !.c.terminate = FALSE]
                   ELSE st
             s2 == IF s1.c.queued > CTL_MSG_HIGH_MARK /\ rdeok
                   THEN [imsg_ctl_rde(s1, "IMSG_XOFF", 0, imsg.pid, 0)
                            EXCEPT !.c.throttled = TRUE]
                   ELSE s1
         IN imsg_compose(s2, imsg.type, 0, imsg.pid, Data(imsg.data, 0, 0))

\* control_imsg_relay clearing terminate on IMSG_CTL_END only
relay_conn_clears_on_end_only(st, imsg, rdeok) ==
    IF imsg.type = "IMSG_CTL_SHOW_NEIGHBOR"
    THEN IF imsg.len > IMSG_HEADER_SIZE + SizeofRdePeerStats THEN st
         ELSE IF imsg.p = 0 THEN st
         ELSE LET s1 == SetPeer(st, [st.peers[imsg.p] EXCEPT !.stats = imsg.stats])
              IN imsg_compose(s1, imsg.type, 0, imsg.pid, PeerData(s1.peers[imsg.p]))
    ELSE LET s1 == IF imsg.type = "IMSG_CTL_END"
                   THEN [st EXCEPT !.c.terminate = FALSE]
                   ELSE st
             s2 == IF ~s1.c.throttled /\ s1.c.queued > CTL_MSG_HIGH_MARK /\ rdeok
                   THEN [imsg_ctl_rde(s1, "IMSG_XOFF", 0, imsg.pid, 0)
                            EXCEPT !.c.throttled = TRUE]
                   ELSE s1
         IN imsg_compose(s2, imsg.type, 0, imsg.pid, Data(imsg.data, 0, 0))

relay_conn(st, imsg, rdeok) ==
    IF imsg.type = "IMSG_CTL_SHOW_NEIGHBOR"
    THEN IF imsg.len > IMSG_HEADER_SIZE + SizeofRdePeerStats THEN st
         ELSE IF imsg.p = 0 THEN st
         ELSE LET s1 == SetPeer(st, [st.peers[imsg.p] EXCEPT !.stats = imsg.stats])
              IN imsg_compose(s1, imsg.type, 0, imsg.pid, PeerData(s1.peers[imsg.p]))
    ELSE LET s1 == IF imsg.type \in {"IMSG_CTL_END", "IMSG_CTL_RESULT"}
                   THEN [st EXCEPT !.c.terminate = FALSE]
                   ELSE st
             s2 == IF ~s1.c.throttled /\ s1.c.queued > CTL_MSG_HIGH_MARK /\ rdeok
                   THEN [imsg_ctl_rde(s1, "IMSG_XOFF", 0, imsg.pid, 0)
                            EXCEPT !.c.throttled = TRUE]
                   ELSE s1
         IN imsg_compose(s2, imsg.type, 0, imsg.pid, Data(imsg.data, 0, 0))

\* control_imsg_relay(imsg, p); rdeok: imsg_ctl_rde did not return -1
control_imsg_relay(imsg, rdeok) ==
    LET i == control_connbypid(conns, imsg.pid) IN
    /\ last.op = "poll"
    /\ pre' = <<>>
    /\ log' = <<>>
    /\ parentq' = <<>>
    /\ UNCHANGED <<pauseaccept, openfds, badclose>>
    /\ IF i = 0
       THEN /\ rdeq' = <<>>
            /\ cliq' = <<>>
            /\ last' = [op |-> "relay", imsg |-> imsg, idx |-> 0, fd |-> 0,
                        rdeok |-> rdeok]
            /\ UNCHANGED <<conns, peers, xoff, inflight>>
       ELSE \E st1 \in {relay_conn([c |-> conns[i], peers |-> peers, out |-> <<>>,
                                    rde |-> <<>>, parent |-> <<>>, matched |-> FALSE],
                                   imsg, rdeok)} :
            /\ st1.c.queued <= MaxQueued
            /\ conns' = [conns EXCEPT ![i] = st1.c]
            /\ peers' = st1.peers
            /\ rdeq' = st1.rde
            /\ cliq' = st1.out
            /\ last' = [op |-> "relay", imsg |-> imsg, idx |-> i,
                        fd |-> conns[i].fd, rdeok |-> rdeok]
            /\ xoff' = [xoff EXCEPT ![conns[i].fd] = SigOf(st1.rde, @)]
            /\ inflight' =
                  IF imsg.type \in {"IMSG_CTL_END", "IMSG_CTL_RESULT"}
                        /\ FlightOf(inflight, conns[i].fd) > 0
                  THEN FlightSet(inflight, conns[i].fd,
                                 FlightOf(inflight, conns[i].fd) - 1)
                  ELSE inflight

Relay(Rs) ==
    /\ last.op = "poll"
    /\ \E imsg \in Rs :
          LET i == control_connbypid(conns, imsg.pid) IN
          \E rdeok \in RdeOutcomes(/\ i # 0
                                    /\ imsg.type # "IMSG_CTL_SHOW_NEIGHBOR"
                                    /\ ~conns[i].throttled
                                    /\ conns[i].queued > CTL_MSG_HIGH_MARK) :
              /\ imsg.p = 0 \/ imsg.p \in DOMAIN peers
              /\ control_imsg_relay(imsg, rdeok)

\* the main loop is back in poll(), on the entries control_fill_pfds wrote:
\* what the last call composed has been handed to the backends
Poll ==
    /\ last.op # "poll"
    /\ rdeq' = <<>>
    /\ parentq' = <<>>
    /\ cliq' = <<>>
    /\ pre' = <<>>
    /\ log' = <<>>
    /\ last' = [op |-> "poll", fill |-> control_fill_pfds(conns)]
    /\ UNCHANGED <<conns, peers, pauseaccept, openfds, badclose, xoff, inflight>>

\* ------------------------------------------------------------ specifications
\* the registry and the flow control: two descriptors, bulk shows, replies
Init == InitWith({PeerTable(1)})

Next ==
    \/ Accept({FALSE}, Fds)
    \/ Dispatch(Fds, RegInputs)
    \/ Relay(Replies)
    \/ Poll

Spec == Init /\ [][Next]_vars

\* the registry alone: accepts, dispatches and closes on every descriptor
NextReg ==
    \/ Accept({FALSE}, Fds)
    \/ Dispatch(Fds, RegInputs)
    \/ Poll

SpecReg == Init /\ [][NextReg]_vars

\* the flow control: one client, bulk shows, every reply
NextFlow ==
    \/ Accept({FALSE}, {1})
    \/ Dispatch({1}, RegInputs)
    \/ Relay(Replies)
    \/ Poll

SpecFlow == Init /\ [][NextFlow]_vars

\* a writable event on which the client takes at least one queued buffer
\* and imsg_ctl_rde does not fail
Drain(F) ==
    /\ last.op = "poll"
    /\ \E fd \in F :
          LET i == control_connbyfd(conns, fd) IN
          /\ i # 0
          /\ \E d \in 1..conns[i].queued :
                control_dispatch_msg(fd, Event({"POLLOUT"}, "ok", d, TRUE,
                                               "eagain", <<>>, FALSE))

\* the flow control with the main loop running: poll() returns,
\* control_dispatch_msg is called for the descriptor, and a client with
\* output queued takes some of it again and again
SpecLive ==
    /\ Init
    /\ [][NextFlow]_vars
    /\ WF_vars(Poll)
    /\ SF_vars(Dispatch({1}, RegInputs))
    /\ SF_vars(Drain({1}))

\* the flow control with the bulk shows in flight counted
InitFlight == InitFrom({PeerTable(1)}, [fd \in Fds |-> 0])

SpecTerm == InitFlight /\ [][NextFlow]_vars

\* the command handlers: one unrestricted client at a time, every command
InitCmd == InitWith(PeerTables)

NextCmd ==
    \/ Accept({FALSE}, {1})
    \/ Dispatch({1}, CmdInputs)
    \/ Poll

SpecCmd == InitCmd /\ [][NextCmd]_vars

\* the restricted-mode filter: one restricted client at a time, every command
NextFilter ==
    \/ Accept({TRUE}, {1})
    \/ Dispatch({1}, CmdInputs)
    \/ Poll

SpecFilter == InitCmd /\ [][NextFilter]_vars

\* the decode loop: frames that arrive together or in pieces
NextSeq ==
    \/ Accept(BOOLEAN, {1})
    \/ Dispatch({1}, SeqOnlyInputs)
    \/ Poll

SpecSeq == InitCmd /\ [][NextSeq]_vars

\* the poll set: connections on every descriptor, with and without output
NextFill ==
    \/ Accept({FALSE}, Fds)
    \/ Dispatch(Fds, FillInputs)
    \/ Poll

SpecFill == Init /\ [][NextFill]_vars

\* the length checks: requests of a wrong size among well-sized ones
NextLen ==
    \/ Accept(BOOLEAN, {1})
    \/ Dispatch({1}, LenInputs)
    \/ Poll

SpecLen == InitCmd /\ [][NextLen]_vars

\* ------------------------------------------------------------ reading the log
\* the handler state before and after the k-th message of the latest dispatch
Before(k) == IF k = 1 THEN pre[1] ELSE log[k - 1].st
After(k) == log[k].st

Suffix(s, t) == SubSeq(t, Len(s) + 1, Len(t))

\* what handling the k-th message composed: on the client's queue, for the
\* route decision engine, for the parent
OutOf(k) == Suffix(Before(k).out, After(k).out)
RdeOf(k) == Suffix(Before(k).rde, After(k).rde)
ParentOf(k) == Suffix(Before(k).parent, After(k).parent)

Result(pid, code) == Msg("IMSG_CTL_RESULT", 0, pid, Data(code, 0, 0))

IsResult(msg, code) == msg.type = "IMSG_CTL_RESULT" /\ msg.data.code = code

\* the peers of ps a selector with this descriptor names, in collection order
Named(ps, descr) ==
    LET Hit(i) == descr = "" \/ ps[i].descr = descr
    IN SelectSeq([i \in 1..Cardinality(DOMAIN ps) |-> i], Hit)

\* ------------------------------------------------------------ C1
\* C1: on a restricted connection a message whose type is not in the
\* allowlist gets exactly one "denied" result and nothing else happens: no
\* peer changes, nothing goes to the parent or the route decision engine,
\* pid and terminate flag of the connection stay as they were.
C1_RestrictedDenied ==
    \A k \in DOMAIN log :
        (Before(k).c.restricted /\ log[k].m.type \notin Allowlist) =>
            /\ OutOf(k) = <<Result(Before(k).c.pid, "CTL_RES_DENIED")>>
            /\ After(k).peers = Before(k).peers
            /\ RdeOf(k) = <<>>
            /\ ParentOf(k) = <<>>
            /\ After(k).c.pid = Before(k).c.pid
            /\ After(k).c.terminate = Before(k).c.terminate

\* a restricted client asked to take down every peer of a collection of two
C1_Witness ==
    \E k \in DOMAIN log :
        /\ Before(k).c.restricted
        /\ log[k].m.type = "IMSG_CTL_NEIGHBOR_DOWN"
        /\ log[k].m.len = LenNeighbor
        /\ log[k].m.descr = ""
        /\ Cardinality(DOMAIN Before(k).peers) = 2
        /\ OutOf(k) # <<>>

\* ------------------------------------------------------------ C4
IsLifecycle(m) == m.type \in LifecycleTypes /\ m.len = LenNeighbor

PerPeerCodes == {"CTL_RES_OK", "CTL_RES_NOCAP", "CTL_RES_BADPEER", "CTL_RES_BADSTATE"}

\* C4: a lifecycle command of correct length with an empty selector against
\* N peers enqueues N results, the j-th for the j-th peer, none of them
\* "no-such-peer"; with N = 0 the single result is "no-such-peer".
C4_EmptySelectorOnePerPeer ==
    \A k \in DOMAIN log :
        (IsLifecycle(log[k].m) /\ log[k].m.descr = "") =>
            LET ps == Before(k).peers
                N == Cardinality(DOMAIN ps)
                out == OutOf(k)
            IN IF N = 0
               THEN out = <<Result(Before(k).c.pid, "CTL_RES_NOSUCHPEER")>>
               ELSE /\ Len(out) = N
                    /\ \A j \in 1..N :
                          /\ out[j].type = "IMSG_CTL_RESULT"
                          /\ out[j].data.code \in PerPeerCodes
                          /\ log[k].m.type = "IMSG_CTL_NEIGHBOR_RREFRESH" =>
                                (out[j].data.code = "CTL_RES_OK" <=> ps[j].refresh)
                          /\ log[k].m.type = "IMSG_CTL_NEIGHBOR_DESTROY" =>
                                (out[j].data.code = "CTL_RES_BADPEER" <=> ~ps[j].template)

\* a route refresh for every peer of a collection of two, answered per peer
C4_Witness ==
    \E k \in DOMAIN log :
        /\ IsLifecycle(log[k].m)
        /\ log[k].m.type = "IMSG_CTL_NEIGHBOR_RREFRESH"
        /\ log[k].m.descr = ""
        /\ Cardinality(DOMAIN Before(k).peers) = 2
        /\ Len(OutOf(k)) = 2
        /\ OutOf(k)[1].data.code # OutOf(k)[2].data.code

\* ------------------------------------------------------------ C6
DestroyCode(p) ==
    IF ~p.template THEN "CTL_RES_BADPEER"
    ELSE IF p.state # "STATE_IDLE" THEN "CTL_RES_BADSTATE"
    ELSE "CTL_RES_OK"

\* C6: destroy-neighbor answers, for each peer it matches, "bad-peer" for a
\* peer that is not template-derived, "bad-state" for a template-derived peer
\* that is not idle, and OK for a template-derived idle peer, whose
\* reconf_action becomes RECONF_DELETE; every peer stays in the collection and
\* a peer answered with an error is unchanged.
C6_Destroy ==
    \A k \in DOMAIN log :
        (IsLifecycle(log[k].m) /\ log[k].m.type = "IMSG_CTL_NEIGHBOR_DESTROY") =>
            LET ps == Before(k).peers
                qs == After(k).peers
                hit == Named(ps, log[k].m.descr)
                out == OutOf(k)
            IN /\ DOMAIN qs = DOMAIN ps
               /\ hit # <<>> => Len(out) = Len(hit)
               /\ \A j \in DOMAIN hit :
                     LET p == ps[hit[j]] IN
                     /\ out[j] = Result(Before(k).c.pid, DestroyCode(p))
                     /\ IF DestroyCode(p) = "CTL_RES_OK"
                        THEN qs[hit[j]] = [p EXCEPT !.reconf_action = "RECONF_DELETE"]
                        ELSE qs[hit[j]] = p

\* destroy-neighbor for all of two peers: the first template-derived and not
\* idle, the second configured
C6_Witness ==
    \E k \in DOMAIN log :
        /\ IsLifecycle(log[k].m)
        /\ log[k].m.type = "IMSG_CTL_NEIGHBOR_DESTROY"
        /\ Len(OutOf(k)) = 2
        /\ OutOf(k)[1].data.code = "CTL_RES_BADSTATE"
        /\ OutOf(k)[2].data.code = "CTL_RES_BADPEER"


\* ------------------------------------------------------------ C9
\* C9: a lifecycle command of correct length whose selector matches no peer
\* enqueues exactly one "no-such-peer" result and changes no peer; one that
\* matches a peer enqueues no "no-such-peer" result.
C9_NoSuchPeerOnce ==
    \A k \in DOMAIN log :
        IsLifecycle(log[k].m) =>
            LET hit == Named(Before(k).peers, log[k].m.descr)
                out == OutOf(k)
            IN IF hit = <<>>
               THEN /\ out = <<Result(Before(k).c.pid, "CTL_RES_NOSUCHPEER")>>
                    /\ After(k).peers = Before(k).peers
               ELSE \A j \in DOMAIN out : ~IsResult(out[j], "CTL_RES_NOSUCHPEER")

\* a command for a peer nobody has, against a collection of two
C9_Witness ==
    \E k \in DOMAIN log :
        /\ IsLifecycle(log[k].m)
        /\ log[k].m.descr = "nobody"
        /\ Cardinality(DOMAIN Before(k).peers) = 2
        /\ Len(OutOf(k)) = 1

\* ------------------------------------------------------------ C7
NoSelector(m, wanted) == m.len # wanted \/ m.descr = ""

\* C7: a neighbor-show request with no selector, dispatched while the peer
\* collection is empty, enqueues exactly one "no-such-peer" result: no end
\* marker is enqueued and nothing goes to the route-decision process.
C7_ShowNeighborNoPeers ==
    \A k \in DOMAIN log :
        (/\ log[k].m.type = "IMSG_CTL_SHOW_NEIGHBOR"
         /\ NoSelector(log[k].m, LenNeighbor)
         /\ DOMAIN Before(k).peers = {}) =>
            /\ OutOf(k) = <<Result(log[k].m.pid, "CTL_RES_NOSUCHPEER")>>
            /\ RdeOf(k) = <<>>
            /\ ParentOf(k) = <<>>

\* a bare neighbor-show request, without payload, against no peers
C7_Witness ==
    \E k \in DOMAIN log :
        /\ log[k].m.type = "IMSG_CTL_SHOW_NEIGHBOR"
        /\ log[k].m.len = LenHdr
        /\ DOMAIN Before(k).peers = {}
        /\ ~Before(k).c.restricted
        /\ Len(OutOf(k)) = 1

\* ------------------------------------------------------------ C5
\* C5: a per-prefix rib-show request of correct length whose address family
\* is unspecified is answered with exactly one "parse-error" result and is
\* not forwarded to the route-decision process, whatever the peer collection
\* and the selector.
C5_RibPrefixNoAid ==
    \A k \in DOMAIN log :
        (/\ log[k].m.type = "IMSG_CTL_SHOW_RIB_PREFIX"
         /\ log[k].m.len = LenRibReq
         /\ log[k].m.aid = AID_UNSPEC) =>
            /\ OutOf(k) = <<Result(Before(k).c.pid, "CTL_RES_PARSE_ERROR")>>
            /\ RdeOf(k) = <<>>

\* ------------------------------------------------------------ C10
NoSuchPeerOnly(k) ==
    /\ Len(OutOf(k)) = 1
    /\ IsResult(OutOf(k)[1], "CTL_RES_NOSUCHPEER")
    /\ RdeOf(k) = <<>>

\* C10 (neighbor show): a neighbor-show request whose selector matches none
\* of the peers of a non-empty collection is answered "no-such-peer" and
\* neither the request nor an end marker goes to the route-decision process.
C10_ShowNeighborNoMatch ==
    \A k \in DOMAIN log :
        (/\ log[k].m.type = "IMSG_CTL_SHOW_NEIGHBOR"
         /\ log[k].m.len = LenNeighbor
         /\ log[k].m.descr # ""
         /\ DOMAIN Before(k).peers # {}
         /\ Named(Before(k).peers, log[k].m.descr) = <<>>) => NoSuchPeerOnly(k)

\* C10 (rib show): the same for a rib or rib-prefix show request.
C10_ShowRibNoMatch ==
    \A k \in DOMAIN log :
        (/\ log[k].m.type \in RibTypes
         /\ log[k].m.len = LenRibReq
         /\ log[k].m.descr # ""
         /\ DOMAIN Before(k).peers # {}
         /\ Named(Before(k).peers, log[k].m.descr) = <<>>) => NoSuchPeerOnly(k)

\* C10: both request kinds.
C10_NoMatchNoSuchPeer == C10_ShowNeighborNoMatch /\ C10_ShowRibNoMatch

\* ------------------------------------------------------------ C2
\* C2: per connection XOFF and XON alternate, XOFF first.  A call issues at
\* most one of them.  An XOFF is issued by control_imsg_relay, for a
\* connection with no XOFF outstanding whose backlog exceeds the high
\* watermark, and marks it throttled; an XON is issued by the POLLOUT branch
\* of control_dispatch_msg, for a connection with an XOFF outstanding whose
\* backlog after the write is below the low watermark, and clears the mark.
\* In between the mark of every registered connection says whether an XOFF
\* is outstanding for it; a freshly accepted connection has none.
C2_XoffXonAlternate ==
    [][/\ Count(rdeq', "IMSG_XOFF") + Count(rdeq', "IMSG_XON") <= 1
       /\ Count(rdeq', "IMSG_XOFF") = 1 =>
             /\ last'.op = "relay"
             /\ last'.idx # 0
             /\ ~xoff[last'.fd]
             /\ xoff'[last'.fd]
             /\ conns[last'.idx].queued > CTL_MSG_HIGH_MARK
             /\ conns'[last'.idx].throttled
       /\ Count(rdeq', "IMSG_XON") = 1 =>
             /\ last'.op = "dispatch"
             /\ "POLLOUT" \in last'.ev.revents
             /\ xoff[last'.fd]
             /\ ~xoff'[last'.fd]
             /\ conns[last'.idx].queued - last'.ev.drained < CTL_MSG_LOW_MARK
             /\ ~last'.closed => ~conns'[last'.idx].throttled
       /\ \A fd \in Fds :
             (xoff'[fd] # xoff[fd]) =>
                 /\ fd = last'.fd
                 /\ \/ Count(rdeq', "IMSG_XOFF") + Count(rdeq', "IMSG_XON") = 1
                    \/ last'.op = "accept" /\ ~xoff'[fd]
       /\ \A i \in DOMAIN conns' : conns'[i].throttled = xoff'[conns'[i].fd]
      ]_vars

\* a writable event that drained a throttled connection: the XON that
\* follows its XOFF
C2_Witness ==
    /\ last.op = "dispatch"
    /\ ~last.closed
    /\ Count(rdeq, "IMSG_XON") = 1
    /\ ~conns[last.idx].throttled

\* ------------------------------------------------------------ C3
RegisteredFds == {conns[i].fd : i \in DOMAIN conns}

\* C3: the registry never holds two entries with the same descriptor; the
\* registered descriptors are exactly the open ones, no close() ever hits a
\* descriptor that is not open, and a connection control_dispatch_msg closed
\* is gone from the registry and its descriptor closed.
C3_RegistryUniqueClosedOnce ==
    /\ \A i, j \in DOMAIN conns : i # j => conns[i].fd # conns[j].fd
    /\ RegisteredFds = openfds
    /\ ~badclose
    /\ (last.op = "dispatch" /\ last.closed) =>
           /\ control_connbyfd(conns, last.fd) = 0
           /\ last.fd \notin openfds

\* the first of two connections was closed, the second stays registered
C3_Witness ==
    /\ last.op = "dispatch"
    /\ last.closed
    /\ last.idx = 1
    /\ Len(conns) = 1

\* ------------------------------------------------------------ C8
BadLen(m) == m.len < IMSG_HEADER_SIZE \/ m.len > MAX_IMSGSIZE

FirstBad(buf) == CHOOSE b \in DOMAIN buf : BadLen(buf[b]) /\ \A j \in 1..(b - 1) : ~BadLen(buf[j])

\* the handler state the decode loop stopped in
Stopped == IF log = <<>> THEN pre[1] ELSE log[Len(log)].st

\* C8: when the receive buffer the decode loop starts with holds a frame
\* whose declared length is below the header size or above the maximum, the
\* connection is closed and removed; the frames before it were handled in
\* order, and neither the bad frame nor anything behind it was handled.
C8_DecodeFailureCloses ==
    (last.op = "dispatch" /\ pre # <<>> /\ \E b \in DOMAIN pre[1].c.rbuf : BadLen(pre[1].c.rbuf[b])) =>
        LET buf == pre[1].c.rbuf
            b == FirstBad(buf)
        IN /\ last.closed
           /\ control_connbyfd(conns, last.fd) = 0
           /\ last.fd \notin openfds
           /\ Len(log) = b - 1
           /\ \A j \in 1..(b - 1) : log[j].m = buf[j]
           /\ peers = Stopped.peers
           /\ cliq = Stopped.out
           /\ parentq = Stopped.parent
           /\ Stopped.c.rbuf = SubSeq(buf, b, Len(buf))

\* an administrative stop that took effect, then a frame with a short length
C8_Witness ==
    /\ last.op = "dispatch"
    /\ last.closed
    /\ pre # <<>>
    /\ Len(pre[1].c.rbuf) = 2
    /\ BadLen(pre[1].c.rbuf[2])
    /\ Len(log) = 1
    /\ log[1].m.type = "IMSG_CTL_NEIGHBOR_DOWN"
    /\ peers # pre[1].peers

\* ------------------------------------------------------------ C11
\* C11 as stated: a dispatch that closes its connection composes no
\* IMSG_CTL_TERMINATE (nothing of the close reaches the route decision
\* engine), also with a bulk show in flight.
C11_CloseSendsNothing ==
    (last.op = "dispatch" /\ last.closed) => Count(rdeq, "IMSG_CTL_TERMINATE") = 0

\* C11 amended: control_close composes exactly one IMSG_CTL_TERMINATE, for
\* the pid of the connection and after everything else the call composed,
\* when the connection it closes has terminate set and a pid, and nothing
\* otherwise; it removes the entry and closes the descriptor.  A call that
\* does not close composes no IMSG_CTL_TERMINATE.  The connection closed is
\* the one the decode loop left or, where the loop was not entered, the one
\* the call found: the POLLOUT branch changes neither terminate nor pid.
C11_CloseTerminatesInFlight ==
    [][LET closing == last'.op = "dispatch" /\ last'.closed
           c == IF pre' # <<>> THEN Stopped'.c ELSE conns[last'.idx]
       IN IF closing /\ c.terminate /\ c.pid # 0
          THEN /\ Count(rdeq', "IMSG_CTL_TERMINATE") = 1
               /\ rdeq'[Len(rdeq')] = BackendMsg("IMSG_CTL_TERMINATE", 0, c.pid, 0)
               /\ control_connbyfd(conns', last'.fd) = 0
               /\ last'.fd \notin openfds'
          ELSE /\ Count(rdeq', "IMSG_CTL_TERMINATE") = 0
               /\ closing =>
                     /\ control_connbyfd(conns', last'.fd) = 0
                     /\ last'.fd \notin openfds'
      ]_vars

\* a rib show and a frame of bad length arrive together: the show is
\* forwarded, the connection closed and the show terminated
C11_Witness ==
    /\ last.op = "dispatch"
    /\ last.closed
    /\ Len(log) = 1
    /\ log[1].m.type = "IMSG_CTL_SHOW_RIB"
    /\ Len(rdeq) = 2
    /\ rdeq[2].type = "IMSG_CTL_TERMINATE"

Exhausted == {"ENFILE", "EMFILE"}

Transient == {"EWOULDBLOCK", "EINTR", "ECONNABORTED"}

\* C13: an accept that fails with ENFILE or EMFILE sets pauseaccept and
\* registers nothing; an accept that fails with EWOULDBLOCK, EINTR or
\* ECONNABORTED changes neither the registry nor pauseaccept; every dispatch
\* that ends in control_close clears pauseaccept; and no other call (a
\* dispatch that does not close, a relay, another accept) changes it.
C13_PauseAccept ==
    [][/\ (last'.op = "accept" /\ last'.outcome \in Exhausted) =>
             pauseaccept' # 0 /\ conns' = conns /\ openfds' = openfds
       /\ (last'.op = "accept" /\ last'.outcome \in Transient) =>
             pauseaccept' = pauseaccept /\ conns' = conns /\ openfds' = openfds
       /\ (last'.op = "dispatch" /\ last'.closed) => pauseaccept' = 0
       /\ (pauseaccept' # pauseaccept) =>
             \/ last'.op = "accept" /\ last'.outcome \in Exhausted
             \/ last'.op = "dispatch" /\ last'.closed
      ]_vars

\* accepting is paused while a registered connection takes a reply from the
\* route decision engine
C13_Witness ==
    /\ pauseaccept # 0
    /\ last.op = "relay"
    /\ last.idx # 0
    /\ cliq # <<>>

\* ------------------------------------------------------------ C14
\* the relay found a connection that is not throttled and whose backlog
\* exceeds the high watermark
RelayOverMark ==
    /\ last'.op = "relay"
    /\ last'.idx # 0
    /\ ~conns[last'.idx].throttled
    /\ conns[last'.idx].queued > CTL_MSG_HIGH_MARK

Forwarded == Len(cliq') = 1 /\ conns'[last'.idx].queued = conns[last'.idx].queued + 1

\* C14 as stated: whatever the type of the reply forwarded, a connection
\* that is not throttled and over the high watermark gets an XOFF sent for
\* the pid and is marked throttled (read with imsg_ctl_rde succeeding).
C14_XoffForEveryReply ==
    [][(RelayOverMark /\ Forwarded /\ last'.rdeok) =>
          /\ rdeq' = <<BackendMsg("IMSG_XOFF", 0, last'.imsg.pid, 0)>>
          /\ conns'[last'.idx].throttled
      ]_vars

\* C14 amended: for a reply of any type but IMSG_CTL_SHOW_NEIGHBOR, a
\* connection that is not throttled and over the high watermark gets an XOFF
\* composed for the pid of the reply and is marked throttled, unless
\* imsg_ctl_rde fails, and then it stays unmarked; the reply is enqueued
\* either way.  A reply of type IMSG_CTL_SHOW_NEIGHBOR composes no XOFF and
\* leaves the mark alone, whatever the backlog.
C14_XoffUnlessNeighbor ==
    [][/\ (RelayOverMark /\ last'.imsg.type # "IMSG_CTL_SHOW_NEIGHBOR") =>
             /\ Forwarded
             /\ IF last'.rdeok
                THEN /\ rdeq' = <<BackendMsg("IMSG_XOFF", 0, last'.imsg.pid, 0)>>
                     /\ conns'[last'.idx].throttled
                ELSE /\ rdeq' = <<>>
                     /\ ~conns'[last'.idx].throttled
       /\ (last'.op = "relay" /\ last'.idx # 0
              /\ last'.imsg.type = "IMSG_CTL_SHOW_NEIGHBOR") =>
             /\ rdeq' = <<>>
             /\ conns'[last'.idx].throttled = conns[last'.idx].throttled
      ]_vars

\* a neighbor reply enqueued on a connection over the high watermark that
\* is not throttled, and stays so
C14_Witness ==
    /\ last.op = "relay"
    /\ last.idx # 0
    /\ last.imsg.type = "IMSG_CTL_SHOW_NEIGHBOR"
    /\ Len(cliq) = 1
    /\ conns[last.idx].queued > CTL_MSG_HIGH_MARK + 1
    /\ ~conns[last.idx].throttled
    /\ rdeq = <<>>

\* ------------------------------------------------------------ C15
ThrottledLow(fd) ==
    \E i \in DOMAIN conns :
        /\ conns[i].fd = fd
        /\ conns[i].throttled
        /\ conns[i].queued < CTL_MSG_LOW_MARK

\* C15: with the main loop running and the client draining, a connection
\* does not stay throttled with a backlog below the low watermark: it is
\* resumed (or closed).
C15_ResumeEventually == \A fd \in Fds : ThrottledLow(fd) ~> ~ThrottledLow(fd)

\* ------------------------------------------------------------ C16
Marker(t) == t \in {"IMSG_CTL_END", "IMSG_CTL_RESULT"}

\* C16 as stated: terminate is set on every connection for which a bulk show
\* was forwarded to the route decision engine and the end or result marker
\* of that request has not been relayed yet, also with several in flight.
C16_TerminateWhileInFlight ==
    inflight # <<>> =>
        \A i \in DOMAIN conns : inflight[conns[i].fd] > 0 => conns[i].terminate

\* C16: terminate says whether a bulk show was forwarded since the last
\* marker was relayed to the connection, whatever the number of requests in
\* flight: a call of control_dispatch_msg that forwards a bulk show and keeps
\* the connection sets it, the relay of an IMSG_CTL_END or IMSG_CTL_RESULT to
\* the connection clears it, a connection is accepted with it clear, and no
\* other step changes it.
C16_TerminateSinceLastMarker ==
    [][/\ (last'.op = "dispatch" /\ ~last'.closed) =>
             conns'[last'.idx].terminate =
                (conns[last'.idx].terminate \/ BulkForwarded(rdeq') > 0)
       /\ (last'.op = "relay" /\ last'.idx # 0) =>
             conns'[last'.idx].terminate =
                (conns[last'.idx].terminate /\ ~Marker(last'.imsg.type))
       /\ (last'.op = "accept" /\ last'.outcome = "ok") =>
             ~conns'[Len(conns')].terminate
       /\ \A i \in DOMAIN conns :
             (last'.op \in {"dispatch", "relay"} => i # last'.idx) =>
                 /\ i \in DOMAIN conns'
                 /\ conns'[i].terminate = conns[i].terminate
      ]_vars

\* the first marker was relayed while a second bulk show is still in flight:
\* the flag is clear
C16_Witness ==
    /\ inflight # <<>>
    /\ last.op = "relay"
    /\ last.idx # 0
    /\ Marker(last.imsg.type)
    /\ inflight[last.fd] = 1
    /\ ~conns[last.idx].terminate

\* ------------------------------------------------------------ C17
\* the connections whose recorded pid is pid, and the first of them
WithPid(pid) == {i \in DOMAIN conns : conns[i].pid = pid}

FirstWithPid(pid) ==
    CHOOSE i \in WithPid(pid) : \A j \in WithPid(pid) : i <= j

\* the step changed nothing but the record of the call
NothingChanged ==
    /\ UNCHANGED <<conns, peers, pauseaccept, openfds, badclose, xoff>>
    /\ rdeq' = <<>>
    /\ parentq' = <<>>
    /\ cliq' = <<>>

\* the step enqueued exactly one message of type t, on connection i
EnqueuedOn(i, t) ==
    /\ Len(cliq') = 1
    /\ cliq'[1].type = t
    /\ DOMAIN conns' = DOMAIN conns
    /\ conns'[i].queued = conns[i].queued + 1
    /\ \A j \in DOMAIN conns : j # i => conns'[j] = conns[j]

\* a neighbor reply control_imsg_relay refuses: too long, or no peer resolved
RefusedReply(imsg) ==
    /\ imsg.type = "IMSG_CTL_SHOW_NEIGHBOR"
    /\ \/ imsg.len > IMSG_HEADER_SIZE + SizeofRdePeerStats
       \/ imsg.p = 0

\* C17 as stated: a reply whose pid no registered connection recorded is
\* dropped with no state change; every other reply is enqueued on the first
\* connection in registry order with that pid and on no other.
C17_RelayEnqueuesOnFirst ==
    [][last'.op = "relay" =>
          IF WithPid(last'.imsg.pid) = {}
          THEN NothingChanged
          ELSE EnqueuedOn(FirstWithPid(last'.imsg.pid), last'.imsg.type)
      ]_vars

\* C17: a reply whose pid no registered connection recorded is dropped with
\* no state change, and so is a neighbor reply that is too long or has no
\* resolved peer; every other reply is enqueued on the first connection in
\* registry order with that pid and on no other.
C17_RelayFirstUnlessRefused ==
    [][last'.op = "relay" =>
          IF WithPid(last'.imsg.pid) = {} \/ RefusedReply(last'.imsg)
          THEN NothingChanged
          ELSE EnqueuedOn(FirstWithPid(last'.imsg.pid), last'.imsg.type)
      ]_vars

\* two connections recorded the reply's pid and the reply went to the first
C17_Witness ==
    /\ last.op = "relay"
    /\ Cardinality(WithPid(last.imsg.pid)) = 2
    /\ last.imsg.pid # 0
    /\ Len(cliq) = 1
    /\ last.idx = 1
    /\ conns[1].queued = 1
    /\ conns[2].queued = 0

\* ------------------------------------------------------------ C18
\* C18: control_fill_pfds writes one entry per registered connection, in
\* registry order, each with POLLIN; an entry has POLLOUT exactly when the
\* connection has output queued; the count returned is the number of
\* registered connections; the registry is left as it was (the entries are
\* those of the registry the main loop then polls on).
C18_FillPfds ==
    last.op = "poll" =>
        /\ last.fill.n = Len(conns)
        /\ DOMAIN last.fill.pfd = DOMAIN conns
        /\ \A i \in DOMAIN conns :
              /\ last.fill.pfd[i].fd = conns[i].fd
              /\ "POLLIN" \in last.fill.pfd[i].events
              /\ "POLLOUT" \in last.fill.pfd[i].events <=> conns[i].queued > 0
              /\ last.fill.pfd[i].events \subseteq {"POLLIN", "POLLOUT"}

\* two connections registered in an order that is not the order of their
\* descriptors; only the first has output queued
C18_Witness ==
    /\ last.op = "poll"
    /\ Len(conns) = 2
    /\ conns[1].fd > conns[2].fd
    /\ conns[1].queued > 0
    /\ conns[2].queued = 0
    /\ last.fill.n = 2
    /\ last.fill.pfd[1].events = {"POLLIN", "POLLOUT"}
    /\ last.fill.pfd[2].events = {"POLLIN"}

\* ------------------------------------------------------------ C19
\* a frame imsg_get accepts whose size is not the one its handler expects
WrongSize(m) ==
    /\ ~BadLen(m)
    /\ \/ m.type \in LifecycleTypes /\ m.len # LenNeighbor
       \/ m.type \in RibTypes /\ m.len # LenRibReq

\* the k-th message of the latest dispatch got past the restricted-mode filter
Reaches(k) == ~Before(k).c.restricted \/ log[k].m.type \in Allowlist

ShowMatched(k) ==
    Named(Before(k).peers,
          IF log[k].m.len = LenNeighbor THEN log[k].m.descr ELSE "")

\* the request asks for the timers
TimerDetail(m) == m.len = LenNeighbor /\ m.show_timers

\* where the local output for the j-th matched peer starts
RECURSIVE BlockStart(_, _, _)
BlockStart(ps, M, j) ==
    IF j = 1 THEN 1
    ELSE BlockStart(ps, M, j - 1) + 1 + Cardinality(ps[M[j - 1]].timers)

\* out is, for each peer of M in turn, the snapshot of the peer and one
\* timer message for each of its running timers, and then one end marker
LocalDetail(out, ps, M) ==
    /\ Len(out) = BlockStart(ps, M, Len(M) + 1)
    /\ out[Len(out)] = Msg("IMSG_CTL_END", 0, 0, NoData)
    /\ Count(out, "IMSG_CTL_END") = 1
    /\ \A j \in DOMAIN M :
          LET b == BlockStart(ps, M, j)
              ts == ps[M[j]].timers
          IN /\ out[b] = Msg("IMSG_CTL_SHOW_NEIGHBOR", 0, 0, PeerData(ps[M[j]]))
             /\ \A t \in 1..Cardinality(ts) : out[b + t].type = "IMSG_CTL_SHOW_TIMER"
             /\ {out[b + t].data.code : t \in 1..Cardinality(ts)} = ts

\* one request for each peer of M in turn, with the id of the peer, and then
\* the end marker
ForwardedPerPeer(q, ps, M, pid) ==
    q = [j \in 1..(Len(M) + 1) |->
            IF j <= Len(M)
            THEN BackendMsg("IMSG_CTL_SHOW_NEIGHBOR", ps[M[j]].id, pid, 0)
            ELSE BackendMsg("IMSG_CTL_END", 0, pid, 0)]

\* C20 as stated: a neighbor show that matches at least one peer, without
\* timer detail, enqueues nothing on the client's queue and forwards a
\* single request to the route decision engine and the end marker after it;
\* with timer detail it forwards nothing and enqueues, per matched peer, the
\* snapshot and one timer message per running timer, then one end marker.
C20_ShowNeighborSingleRequest ==
    \A k \in DOMAIN log :
        (log[k].m.type = "IMSG_CTL_SHOW_NEIGHBOR" /\ ShowMatched(k) # <<>>) =>
            IF TimerDetail(log[k].m)
            THEN /\ RdeOf(k) = <<>>
                 /\ LocalDetail(OutOf(k), Before(k).peers, ShowMatched(k))
            ELSE /\ OutOf(k) = <<>>
                 /\ Len(RdeOf(k)) = 2
                 /\ RdeOf(k)[1].type = "IMSG_CTL_SHOW_NEIGHBOR"
                 /\ RdeOf(k)[2] = BackendMsg("IMSG_CTL_END", 0, log[k].m.pid, 0)

\* C20: a neighbor show that matches at least one peer, without timer
\* detail, enqueues nothing on the client's queue and forwards one request
\* for each matched peer, with the id of the peer and in peer order, to the
\* route decision engine, and the end marker after them; with timer detail
\* it forwards nothing and enqueues, per matched peer, the snapshot and one
\* timer message per running timer, then one end marker.  Either way the pid
\* of the request is recorded and nothing goes to the parent.
C20_ShowNeighborPerPeer ==
    \A k \in DOMAIN log :
        (log[k].m.type = "IMSG_CTL_SHOW_NEIGHBOR" /\ ShowMatched(k) # <<>>) =>
            /\ After(k).c.pid = log[k].m.pid
            /\ After(k).peers = Before(k).peers
            /\ ParentOf(k) = <<>>
            /\ IF TimerDetail(log[k].m)
               THEN /\ RdeOf(k) = <<>>
                    /\ LocalDetail(OutOf(k), Before(k).peers, ShowMatched(k))
               ELSE /\ OutOf(k) = <<>>
                    /\ ForwardedPerPeer(RdeOf(k), Before(k).peers, ShowMatched(k),
                                        log[k].m.pid)

\* a neighbor show without timer detail and without selector against two
\* peers: two requests and the end marker for the route decision engine
C20_Witness ==
    \E k \in DOMAIN log :
        /\ log[k].m.type = "IMSG_CTL_SHOW_NEIGHBOR"
        /\ ~TimerDetail(log[k].m)
        /\ Len(ShowMatched(k)) = 2
        /\ Len(RdeOf(k)) = 3
        /\ RdeOf(k)[3].type = "IMSG_CTL_END"
        /\ OutOf(k) = <<>>

====
